---- MODULE Spec2Model ----
(***************************************************************************)
(* A model of the cardano-launcher supervision engine: the Launcher class  *)
(* of src/cardanoLauncher.ts driving two Services (node, wallet).          *)
(*                                                                         *)
(* The Launcher (constructor, start, waitForApi, stop, signal handlers) is *)
(* translated from src/cardanoLauncher.ts.  The Service state machine      *)
(* lives in ./service, which is not part of the sources at hand; it is     *)
(* modelled from section 4.1 of the specification.                         *)
(*                                                                         *)
(* One action is one event-loop turn: the handler of an OS or user event   *)
(* together with the promise continuations it makes runnable.              *)
(***************************************************************************)
EXTENDS Integers, FiniteSets, Sequences, TLC

Services == {"node", "wallet"}

Other(s) == IF s = "node" THEN "wallet" ELSE "node"

\* ---- bounds -------------------------------------------------------------
MaxStarts == 2      \* calls of Launcher.start()
MaxStops == 2       \* calls of Launcher.stop() made by the user
MaxConn == 1        \* sockets of one readiness poll that are in flight
MaxSent == 2        \* termination requests counted per process
MaxList == 2        \* exit statuses in a list given to combineStatus

StartCalls == 1..MaxStarts
StopCalls == 1..MaxStops

\* ---- program constants --------------------------------------------------
WalletPort == 8090          \* the port walletExe assigns (config or getPort)
DefaultTimeout == 60        \* Launcher.stop(timeoutSeconds = 60)
UnknownPort == 0            \* private apiPort = 0, until the port is known
SignalExit == 127           \* combineStatus: killed by a signal, no code
Timeouts == {0, DefaultTimeout}

\* LaunchConfig.installSignalHandlers, at its default
InstallSignalHandlers == TRUE

\* ServiceStatus, an ordered enum
Starting == 0
Started == 1
Stopping == 2
Stopped == 3

\* ---- ServiceExitStatus --------------------------------------------------
NoCode == 0 - 1             \* code: null
NoSignal == "null"          \* signal: null
NoErr == "null"             \* err: null

EmptyStatus == [code |-> NoCode, signal |-> NoSignal, err |-> NoErr]
ExitedWith(c) == [code |-> c, signal |-> NoSignal, err |-> NoErr]
\* a killed process reported with the shell's code for SIGKILL as well
KilledWithCode == [code |-> 137, signal |-> "SIGKILL", err |-> NoErr]
KilledStatus == [code |-> NoCode, signal |-> "SIGKILL", err |-> NoErr]
SpawnErrStatus == [code |-> NoCode, signal |-> NoSignal, err |-> "ENOENT"]

VARIABLES
  cfgPort,      \* LaunchConfig.apiPort as walletExe resolves it
  genesis,      \* walletExe passes its check of the byron genesisFile
  clean,        \* StartService.supportsCleanShutdown: the wallet's is true
                \* (walletExe), the node's is taken false, so that both
                \* branches of Service.stop() are exercised
  cfg,          \* the StartService promises of makeServiceCommands
  status,       \* Service: ServiceStatus
  startTask,    \* Service: the task returned by start()
  exitStatus,   \* Service: the exit status, once Stopped
  graceful,     \* graceful termination requests sent to each process
  kills,        \* forced kills sent to each process
  killTimer,    \* Service: the escalation timer is armed
  portOpen,     \* the wallet process accepts connections on its API port
  apiPort,      \* Launcher.apiPort
  exited,       \* Launcher.exited
  exitEvents,   \* the 'exit' notifications emitted, in order
  readyEvents,  \* the 'ready' notifications emitted, in order (their port)
  spc,          \* Launcher.start(): where each call stands
  sres,         \* Launcher.start(): the outcome of each call
  wait,         \* waitForApi: the promise of each call
  timer,        \* waitForApi: the interval timer of each call is armed
  conn,         \* waitForApi: connection attempts in flight
  stops,        \* Launcher.stop(): the calls made by the user
  sig,          \* a termination signal was handled after start() was called
  statuses,     \* cli: the list of exit statuses given to combineStatus
  exitCode      \* cli: the code given to process.exit, once computed

\* what the LaunchConfig fixes: no step changes it
fixed == <<cfgPort, genesis, clean>>

\* the state of the command-line interface
cli == <<statuses, exitCode>>

vars == <<fixed, cli, cfg, status, startTask, exitStatus,
          graceful, kills, killTimer, portOpen, apiPort, exited, exitEvents,
          readyEvents, spc, sres, wait, timer, conn, stops, sig>>

Running(s) == status[s] \in {Started, Stopping}

Bump(n) == IF n < MaxSent THEN n + 1 ELSE n

\* ---- Service (section 4.1 of the specification) -------------------------

\* a start() that begins a spawn at every call
ServiceStartAgain(task) == "pending"

\* Service.start(): the first call begins the spawn, later calls share it.
ServiceStart(task) == IF task = "idle" THEN "pending" ELSE task

\* Service.start() of a Service whose StartService promise is c: with a
\* rejected promise there is nothing to spawn, and the task fails.
StartCfg(c, task) ==
  IF c = "rejected" /\ task \in {"idle", "pending"} THEN "failed"
  ELSE ServiceStart(task)

\* a stop() that asks the process once and never escalates
ServiceStopNoDeadline(s, t) ==
  [status |-> IF status[s] = Started THEN Stopping ELSE status[s],
   graceful |-> IF status[s] = Started THEN Bump(graceful[s])
                ELSE graceful[s],
   kills |-> kills[s],
   killTimer |-> FALSE]

\* a stop() that kills at once, whatever the timeout and the shutdown method
ServiceStopKillsFirst(s, t) ==
  [status |-> IF status[s] = Started THEN Stopping ELSE status[s],
   graceful |-> graceful[s],
   kills |-> IF status[s] \in {Started, Stopping} /\ kills[s] = 0
               THEN Bump(kills[s]) ELSE kills[s],
   killTimer |-> FALSE]

\* a stop() that, on a Service already Stopping, only joins the termination
\* under way, whatever its timeout
ServiceStopJoins(s, t) ==
  LET force == (t = 0) \/ ~clean[s]
  IN  IF status[s] = Started
        THEN [status |-> Stopping,
              graceful |-> IF force THEN graceful[s] ELSE Bump(graceful[s]),
              kills |-> IF force THEN Bump(kills[s]) ELSE kills[s],
              killTimer |-> ~force]
        ELSE [status |-> status[s], graceful |-> graceful[s],
              kills |-> kills[s], killTimer |-> killTimer[s]]

\* a stop() that sets the status to Stopping without looking at it
ServiceStopUnguarded(s, t) ==
  LET force == (t = 0) \/ ~clean[s]
  IN  [status |-> Stopping,
       graceful |-> IF force \/ ~Running(s) THEN graceful[s]
                    ELSE Bump(graceful[s]),
       kills |-> IF force /\ Running(s) THEN Bump(kills[s]) ELSE kills[s],
       killTimer |-> ~force]

\* Service.stop(t) called on service s: what changes in s.
\*   Starting: no process, no transition; resolves with an empty status.
\*   Started:  -> Stopping; graceful request and escalation timer, or a
\*             forced kill at once (t = 0 or no clean shutdown).
\*   Stopping: joins the termination under way; t = 0 forces the kill.
\*   Stopped:  resolves with the exit status.
ServiceStop(s, t) ==
  LET force == (t = 0) \/ ~clean[s]
      same == [status |-> status[s], graceful |-> graceful[s],
               kills |-> kills[s], killTimer |-> killTimer[s]]
  IN  CASE status[s] = Started ->
             [status |-> Stopping,
              graceful |-> IF force THEN graceful[s] ELSE Bump(graceful[s]),
              kills |-> IF force THEN Bump(kills[s]) ELSE kills[s],
              killTimer |-> ~force]
        [] status[s] = Stopping /\ t = 0 /\ kills[s] = 0 ->
             [same EXCEPT !.kills = Bump(kills[s]), !.killTimer = FALSE]
        [] OTHER -> same

\* Does the task of Service.stop() called now wait for the process to exit?
StopWaits(s) == status[s] \in {Started, Stopping}

\* ---- Launcher -----------------------------------------------------------

\* an Api built when the Launcher is constructed, before the port is known
GetApiEarly == UnknownPort

\* walletBackend.getApi(): new V2Api(this.apiPort)
GetApi == apiPort

\* stopWaiting of Launcher.start(), evaluated on a status map
StopWaiting(st) == st["node"] > Started \/ st["wallet"] > Started

\* Where a start() call stands once the continuations have run:
\* await nodeService.start(); await walletService.start(); then waitForApi
\* and the ready/exit listeners.
Resume(pc, nodeDone, walletDone) ==
  IF pc = "awaitNode" /\ nodeDone
    THEN (IF walletDone THEN "listening" ELSE "awaitWallet")
    ELSE IF pc = "awaitWallet" /\ walletDone THEN "listening" ELSE pc

\* `await this.walletService.start()` when the wallet's StartService promise
\* is rejected: the call of start() is rejected with that error.
Fail(pc, c) == IF pc = "awaitWallet" /\ c = "rejected" THEN "failed" ELSE pc

\* a gate that never closes
GateStuckOpen(ex) == TRUE

\* the one-shot exit gate of Launcher.stop: if (!this.exited)
Gate(ex) == ~ex

\* The then-callbacks of the stop() calls completing in one turn, in order:
\* each emits 'exit' with its status if the gate is open, and closes it.
RECURSIVE EmitExit(_, _)
EmitExit(args, ex) ==
  IF args = <<>> THEN <<>>
  ELSE IF Gate(ex) THEN <<Head(args)>> \o EmitExit(Tail(args), TRUE)
       ELSE EmitExit(Tail(args), ex)

\* a flag that records whether the last then-callback emitted
SetExitedLast(ex, emitted) == emitted # <<>>

\* Launcher.stop: this.exited = true, written only where 'exit' is emitted
SetExited(ex, emitted) == ex \/ emitted # <<>>

RECURSIVE SeqOf(_)
SeqOf(S) ==
  IF S = {} THEN <<>>
  ELSE LET x == CHOOSE y \in S : TRUE IN <<x>> \o SeqOf(S \ {x})

\* events.emit('exit', status) to the listeners start() registered
Rejected(pcs, res, arg) ==
  [i \in StartCalls |->
     IF pcs[i] = "listening" /\ res[i] = <<>> THEN <<"rejected", arg>> ELSE res[i]]

\* events.emit('ready', api) to the listeners start() registered
Resolved(pcs, res, api) ==
  [i \in StartCalls |->
     IF pcs[i] = "listening" /\ res[i] = <<>> THEN <<"resolved", api>> ELSE res[i]]

IdleStop == [st |-> "idle", on |-> {}, res |-> [s \in Services |-> EmptyStatus]]

Constructed ==
  /\ cfgPort \in {0, WalletPort}
  /\ genesis \in {g \in BOOLEAN : g \/ cfgPort = WalletPort}
  /\ clean = [s \in Services |-> s = "wallet"]
  /\ cfg = [s \in Services |-> "pending"]
  /\ status = [s \in Services |-> Starting]
  /\ startTask = [s \in Services |-> "idle"]
  /\ exitStatus = [s \in Services |-> EmptyStatus]
  /\ graceful = [s \in Services |-> 0]
  /\ kills = [s \in Services |-> 0]
  /\ killTimer = [s \in Services |-> FALSE]
  /\ portOpen = FALSE
  /\ apiPort = UnknownPort
  /\ exited = FALSE
  /\ exitEvents = <<>>
  /\ readyEvents = <<>>
  /\ spc = [i \in StartCalls |-> "idle"]
  /\ sres = [i \in StartCalls |-> <<>>]
  /\ wait = [i \in StartCalls |-> "none"]
  /\ timer = [i \in StartCalls |-> FALSE]
  /\ conn = [i \in StartCalls |-> 0]
  /\ stops = [c \in StopCalls |-> IdleStop]
  /\ sig = FALSE

Init == Constructed /\ statuses = <<>> /\ exitCode = <<>>

\* ---- actions ------------------------------------------------------------

\* makeServiceCommands: the node's StartService resolves, then the wallet's;
\* the constructor copies the wallet's apiPort when it does.
CfgResolved(s) ==
  /\ cfg[s] = "pending"
  /\ s = "wallet" => (cfg["node"] = "resolved" /\ genesis)
  /\ cfg' = [cfg EXCEPT ![s] = "resolved"]
  /\ apiPort' = IF s = "wallet" THEN cfgPort ELSE apiPort
  /\ UNCHANGED <<fixed, cli, status, startTask, exitStatus,
                 graceful, kills, killTimer, portOpen, exited, exitEvents,
                 readyEvents, spc, sres, wait, timer, conn, stops, sig>>

\* makeServiceCommands: walletExe throws ('ByronNetwork.genesisFile must be
\* configured'), so the wallet's StartService promise is rejected; the
\* constructor's catch logs the error.  A wallet Service.start() under way
\* fails, and so does every start() call awaiting it.
CfgRejected ==
  /\ cfg["wallet"] = "pending"
  /\ cfg["node"] = "resolved"
  /\ ~genesis
  /\ cfg' = [cfg EXCEPT !["wallet"] = "rejected"]
  /\ startTask' = [startTask EXCEPT !["wallet"] = StartCfg("rejected", @)]
  /\ spc' = [i \in StartCalls |-> Fail(spc[i], "rejected")]
  /\ UNCHANGED <<fixed, cli, status, exitStatus, graceful, kills, killTimer,
                 portOpen, apiPort, exited, exitEvents, readyEvents, sres,
                 wait, timer, conn, stops, sig>>

\* The start() calls whose await has completed go on: the wallet Service is
\* started once the node's start() has resolved, and waitForApi is called
\* (timer armed, listeners registered) once the wallet's has.
Continue(pcs, nodeDone, task) ==
  /\ spc' = pcs
  /\ startTask' =
       [x \in Services |->
          IF x = "wallet" /\ nodeDone /\ \E i \in StartCalls : spc[i] = "awaitNode"
            THEN StartCfg(cfg[x], task[x]) ELSE task[x]]
  /\ wait' = [i \in StartCalls |->
                IF spc[i] # "listening" /\ pcs[i] = "listening"
                  THEN "pending" ELSE wait[i]]
  /\ timer' = [i \in StartCalls |->
                 (spc[i] # "listening" /\ pcs[i] = "listening") \/ timer[i]]

\* Launcher.start() is called.
StartCall(i) ==
  /\ spc[i] = "idle"
  /\ \A j \in StartCalls : j < i => spc[j] # "idle"
  /\ LET nodeDone == startTask["node"] = "done"
         walletDone == startTask["wallet"] = "done"
         pc == Fail(Resume("awaitNode", nodeDone, walletDone), cfg["wallet"])
     IN  /\ spc' = [spc EXCEPT ![i] = pc]
         /\ startTask' =
              [x \in Services |->
                 IF x = "node" \/ nodeDone
                   THEN StartCfg(cfg[x], startTask[x])
                 ELSE startTask[x]]
         /\ wait' = [wait EXCEPT ![i] = IF pc = "listening" THEN "pending" ELSE @]
         /\ timer' = [timer EXCEPT ![i] = (pc = "listening")]
  /\ UNCHANGED <<fixed, cli, cfg, status, exitStatus,
                 graceful, kills, killTimer, portOpen, apiPort, exited,
                 exitEvents, readyEvents, sres, conn, stops, sig>>

\* The OS confirms the spawn of a Service's process: Starting -> Started,
\* the task of Service.start() resolves.
SpawnOK(s) ==
  /\ startTask[s] = "pending"
  /\ cfg[s] = "resolved"
  /\ status' = [status EXCEPT ![s] = Started]
  /\ LET nodeDone == s = "node" \/ startTask["node"] = "done"
         walletDone == s = "wallet" \/ startTask["wallet"] = "done"
         pcs == [i \in StartCalls |->
                   Fail(Resume(spc[i], nodeDone, walletDone), cfg["wallet"])]
     IN  Continue(pcs, nodeDone, [startTask EXCEPT ![s] = "done"])
  /\ UNCHANGED <<fixed, cli, cfg, exitStatus, graceful,
                 kills, killTimer, portOpen, apiPort, exited, exitEvents,
                 readyEvents, sres, conn, stops, sig>>

\* A Service reaches Stopped with exit status st.  The Launcher's
\* statusChanged listener calls this.stop(), which stops the other Service;
\* then every stop() call whose two Service.stop() tasks have resolved runs
\* its then-callback.
OnStopped(s, st) ==
  LET o == Other(s)
      so == ServiceStop(o, DefaultTimeout)
      status1 == [x \in Services |-> IF x = s THEN Stopped ELSE so.status]
      exit1 == [exitStatus EXCEPT ![s] = st]
      lres == [x \in Services |->
                 IF status1[x] = Stopped THEN exit1[x] ELSE EmptyStatus]
      ldone == status1[o] \notin {Started, Stopping}
      stops1 == [c \in StopCalls |->
                   IF stops[c].st = "wait" /\ s \in stops[c].on
                     THEN [st |-> IF stops[c].on = {s} THEN "done" ELSE "wait",
                           on |-> stops[c].on \ {s},
                           res |-> [stops[c].res EXCEPT ![s] = st]]
                     ELSE stops[c]]
      completed == {stops1[c].res :
                      c \in {d \in StopCalls : stops[d].st = "wait"
                                               /\ stops1[d].st = "done"}}
                   \cup (IF ldone THEN {lres} ELSE {})
      nodeDone == s = "node" \/ startTask["node"] = "done"
      walletDone == s = "wallet" \/ startTask["wallet"] = "done"
      pcs == [i \in StartCalls |->
                Fail(Resume(spc[i], nodeDone, walletDone), cfg["wallet"])]
  IN  /\ status' = status1
      /\ exitStatus' = exit1
      /\ graceful' = [graceful EXCEPT ![o] = so.graceful]
      /\ kills' = [kills EXCEPT ![o] = so.kills]
      /\ killTimer' = [x \in Services |-> IF x = s THEN FALSE ELSE so.killTimer]
      /\ portOpen' = (portOpen /\ s # "wallet")
      /\ stops' = stops1
      /\ Continue(pcs, nodeDone, [startTask EXCEPT ![s] = "done"])
      /\ \E first \in (IF completed = {} THEN {lres} ELSE completed) :
           LET emitted == IF completed = {} THEN <<>>
                          ELSE EmitExit(<<first>> \o SeqOf(completed \ {first}),
                                        exited)
           IN  /\ exitEvents' = exitEvents \o emitted
               /\ exited' = SetExited(exited, emitted)
               /\ sres' = IF emitted = <<>> THEN sres
                          ELSE Rejected(spc, sres, emitted[1])
      /\ UNCHANGED <<fixed, cli, cfg, apiPort, readyEvents,
                     conn, sig>>

\* The spawn fails: Starting -> Stopped with err set.
SpawnFail(s) ==
  /\ startTask[s] = "pending"
  /\ cfg[s] = "resolved"
  /\ OnStopped(s, SpawnErrStatus)

\* The code a process exits with: 0 when it was asked to shut down, 1 when
\* it fails by itself.
ExitCode(s) == IF graceful[s] > 0 THEN 0 ELSE 1

\* The process exits by itself (also in answer to a graceful request), as
\* long as no forced kill has been sent to it.
OwnExit(s) ==
  /\ Running(s)
  /\ kills[s] = 0
  /\ OnStopped(s, ExitedWith(ExitCode(s)))

\* The process dies of the forced kill it was sent.
Killed(s) ==
  /\ Running(s)
  /\ kills[s] > 0
  /\ OnStopped(s, KilledStatus)

\* The escalation timer of Service.stop() fires: forced kill.
KillTimerFires(s) ==
  /\ killTimer[s]
  /\ status[s] = Stopping
  /\ kills' = [kills EXCEPT ![s] = Bump(@)]
  /\ killTimer' = [killTimer EXCEPT ![s] = FALSE]
  /\ UNCHANGED <<fixed, cli, cfg, status, startTask,
                 exitStatus, graceful, portOpen, apiPort, exited, exitEvents,
                 readyEvents, spc, sres, wait, timer, conn, stops, sig>>

\* The wallet process begins to accept connections on its API port.
WalletListens ==
  /\ Running("wallet")
  /\ ~portOpen
  /\ portOpen' = TRUE
  /\ UNCHANGED <<fixed, cli, cfg, status, startTask,
                 exitStatus, graceful, kills, killTimer, apiPort, exited,
                 exitEvents, readyEvents, spc, sres, wait, timer, conn, stops,
                 sig>>

\* a tick that never looks at the stop predicate
PollIgnoresStop(stop, port) == IF port # 0 THEN "connect" ELSE "skip"

\* a tick that connects without looking at the port
PollAnyPort(stop, port) == IF stop THEN "abort" ELSE "connect"

\* waitForApi: what one tick of poll does.
Poll(stop, port) ==
  IF stop THEN "abort" ELSE IF port # 0 THEN "connect" ELSE "skip"

\* waitForApi: a tick of the interval timer.
PollTick(i) ==
  /\ timer[i]
  /\ LET do == Poll(StopWaiting(status), apiPort)
     IN  /\ do = "connect" => conn[i] < MaxConn
         /\ timer' = [timer EXCEPT ![i] = (do # "abort")]
         /\ wait' = [wait EXCEPT ![i] =
                       IF do = "abort" /\ @ = "pending" THEN "rejected" ELSE @]
         /\ conn' = [conn EXCEPT ![i] = IF do = "connect" THEN @ + 1
                                        ELSE IF do = "abort" THEN 0 ELSE @]
  /\ UNCHANGED <<fixed, cli, cfg, status, startTask,
                 exitStatus, graceful, kills, killTimer, portOpen, apiPort,
                 exited, exitEvents, readyEvents, spc, sres, stops, sig>>

\* waitForApi: a connection attempt succeeds: clearInterval, resolve(), and
\* the then-callback of start() emits 'ready'.  The sockets still in flight
\* when the promise settles find it settled and the timer cleared: their
\* callbacks change nothing, and conn stops counting them.
ConnectOK(i) ==
  /\ conn[i] > 0
  /\ portOpen
  /\ wait[i] = "pending"
  /\ conn' = [conn EXCEPT ![i] = 0]
  /\ timer' = [timer EXCEPT ![i] = FALSE]
  /\ wait' = [wait EXCEPT ![i] = "resolved"]
  /\ readyEvents' = Append(readyEvents, GetApi)
  /\ sres' = Resolved(spc, sres, GetApi)
  /\ UNCHANGED <<fixed, cli, cfg, status, startTask,
                 exitStatus, graceful, kills, killTimer, portOpen, apiPort,
                 exited, exitEvents, spc, stops, sig>>

\* waitForApi: a connection attempt fails (the error is logged).
ConnectFail(i) ==
  /\ conn[i] > 0
  /\ ~portOpen
  /\ conn' = [conn EXCEPT ![i] = @ - 1]
  /\ UNCHANGED <<fixed, cli, cfg, status, startTask,
                 exitStatus, graceful, kills, killTimer, portOpen, apiPort,
                 exited, exitEvents, readyEvents, spc, sres, wait, timer,
                 stops, sig>>

\* a stop() that asks the node only once the wallet is no longer running
StopWalletFirst(t) ==
  [s \in Services |->
     IF s = "node" /\ Running("wallet")
       THEN [status |-> status[s], graceful |-> graceful[s],
             kills |-> kills[s], killTimer |-> killTimer[s]]
       ELSE ServiceStop(s, t)]

\* Launcher.stop: Promise.all([walletService.stop(t), nodeService.stop(t)]):
\* both Service.stop() calls are made before either task is waited on.
StopBoth(t) == [s \in Services |-> ServiceStop(s, t)]

\* Launcher.stop(t) is called by the user.
StopCall(c, t) ==
  /\ stops[c].st = "idle"
  /\ \A d \in StopCalls : d < c => stops[d].st # "idle"
  /\ LET sv == StopBoth(t)
         on == {s \in Services : StopWaits(s)}
         res == [s \in Services |->
                   IF status[s] = Stopped THEN exitStatus[s] ELSE EmptyStatus]
         emitted == IF on = {} THEN EmitExit(<<res>>, exited) ELSE <<>>
     IN  /\ status' = [s \in Services |-> sv[s].status]
         /\ graceful' = [s \in Services |-> sv[s].graceful]
         /\ kills' = [s \in Services |-> sv[s].kills]
         /\ killTimer' = [s \in Services |-> sv[s].killTimer]
         /\ stops' = [stops EXCEPT ![c] =
                        [st |-> IF on = {} THEN "done" ELSE "wait",
                         on |-> on, res |-> res]]
         /\ exitEvents' = exitEvents \o emitted
         /\ exited' = SetExited(exited, emitted)
         /\ sres' = IF emitted = <<>> THEN sres
                    ELSE Rejected(spc, sres, emitted[1])
  /\ UNCHANGED <<fixed, cli, cfg, startTask, exitStatus,
                 portOpen, apiPort, readyEvents, spc, wait, timer, conn, sig>>

\* installSignalHandlers: a termination signal arrives; the handler calls
\* stop(0) on the wallet Service and on the node Service.
Signal ==
  /\ InstallSignalHandlers
  /\ LET sv == [s \in Services |-> ServiceStop(s, 0)]
     IN  /\ status' = [s \in Services |-> sv[s].status]
         /\ graceful' = [s \in Services |-> sv[s].graceful]
         /\ kills' = [s \in Services |-> sv[s].kills]
         /\ killTimer' = [s \in Services |-> sv[s].killTimer]
  /\ sig' = (sig \/ \E i \in StartCalls : spc[i] # "idle")
  /\ UNCHANGED <<fixed, cli, cfg, startTask, exitStatus,
                 portOpen, apiPort, exited, exitEvents, readyEvents, spc,
                 sres, wait, timer, conn, stops>>

Next ==
  \/ \E s \in Services : CfgResolved(s)
  \/ CfgRejected
  \/ \E i \in StartCalls : StartCall(i)
  \/ \E s \in Services : SpawnOK(s)
  \/ \E s \in Services : SpawnFail(s)
  \/ \E s \in Services : OwnExit(s)
  \/ \E s \in Services : Killed(s)
  \/ \E s \in Services : KillTimerFires(s)
  \/ WalletListens
  \/ \E i \in StartCalls : PollTick(i)
  \/ \E i \in StartCalls : ConnectOK(i)
  \/ \E i \in StartCalls : ConnectFail(i)
  \/ \E c \in StopCalls, t \in Timeouts : StopCall(c, t)
  \/ Signal

Spec == Init /\ [][Next]_vars

\* ---- cli: combineStatus -------------------------------------------------

\* The exit statuses combineStatus is tried on.
ExitStatuses ==
  [code : {NoCode, 0, 1, 2}, signal : {NoSignal, "SIGKILL", "SIGTERM"},
   err : {NoErr}]

RECURSIVE ListsOf(_, _)
ListsOf(S, n) ==
  IF n = 0 THEN {<<>>}
  ELSE LET shorter == ListsOf(S, n - 1)
       IN  shorter \cup {Append(l, x) : l \in shorter, x \in S}

\* _.reduce(statuses, (res, status) => res === null ? f(status) : res, null)
RECURSIVE Reduce(_, _, _)
Reduce(l, field, res) ==
  IF l = <<>> THEN res
  ELSE Reduce(Tail(l), field,
              IF res = "null"
                THEN (IF field = "code"
                        THEN (IF Head(l).code = NoCode THEN "null"
                              ELSE <<Head(l).code>>)
                        ELSE Head(l).signal)
                ELSE res)

\* a combineStatus that looks at the signals before the codes
CombineSignalFirst(l) ==
  LET code == Reduce(l, "code", "null")
      signal == Reduce(l, "signal", "null")
  IN  IF signal = "null" THEN (IF code = "null" THEN 0 ELSE code[1])
      ELSE SignalExit

\* combineStatus
CombineStatus(l) ==
  LET code == Reduce(l, "code", "null")
      signal == Reduce(l, "signal", "null")
  IN  IF code = "null" THEN (IF signal = "null" THEN 0 ELSE SignalExit)
      ELSE code[1]

\* cli: the 'exit' handler calls process.exit(combineStatus(statuses)).
CliExit ==
  /\ exitCode = <<>>
  /\ exitCode' = <<CombineStatus(statuses)>>
  /\ UNCHANGED <<fixed, statuses, cfg, status, startTask, exitStatus,
                 graceful, kills, killTimer, portOpen, apiPort, exited,
                 exitEvents, readyEvents, spc, sres, wait, timer, conn,
                 stops, sig>>

\* combineStatus applied to every list of at most MaxList exit statuses
CombineInit ==
  /\ Constructed
  /\ cfgPort = WalletPort
  /\ genesis
  /\ statuses \in ListsOf(ExitStatuses, MaxList)
  /\ exitCode = <<>>

CombineSpec == CombineInit /\ [][CliExit]_vars

\* ---- properties ---------------------------------------------------------

TypeOK ==
  /\ status \in [Services -> Starting..Stopped]
  /\ startTask \in [Services -> {"idle", "pending", "done", "failed"}]
  /\ apiPort \in {0, WalletPort}
  /\ exited \in BOOLEAN
  /\ \A i \in StartCalls : conn[i] \in 0..MaxConn /\ timer[i] \in BOOLEAN

\* Nothing the Launcher has under way is left to happen: no StartService
\* promise or spawn pending, no escalation timer, no kill in flight, no poll
\* timer, no connection attempt.  Only the user, the OS and the processes
\* themselves can make the next step.
Quiescent ==
  /\ \A s \in Services :
       /\ cfg[s] = "resolved"
       /\ startTask[s] # "pending"
       /\ ~killTimer[s]
       /\ ~(Running(s) /\ kills[s] > 0)
  /\ \A i \in StartCalls : ~timer[i] /\ conn[i] = 0

\* Every spawn attempted so far has succeeded.
NoSpawnFailed == \A s \in Services : exitStatus[s].err = NoErr

\* A process of the Launcher has exited, and no spawn has failed.
SomeProcessExited ==
  /\ NoSpawnFailed
  /\ \E s \in Services : status[s] = Stopped

\* Neither the user (stop()) nor a signal has asked for shutdown.
NoShutdownAsked == ~sig /\ \A c \in StopCalls : stops[c].st = "idle"

Settled(i, how) == sres[i] # <<>> /\ sres[i][1] = how

\* C1: the 'exit' notification is emitted at most once per Launcher, whatever
\* the stop() calls, statusChanged(Stopped) callbacks and signals.
C1_ExitAtMostOnce == Len(exitEvents) <= 1

\* C1 witness: after a start() that resolved, every stop() call of the user
\* has returned, both Services are Stopped, and one exit was recorded.
C1_Witness ==
  /\ Len(exitEvents) = 1
  /\ \A c \in StopCalls : stops[c].st = "done"
  /\ \E i \in StartCalls : Settled(i, "resolved")
  /\ \A s \in Services : status[s] = Stopped

\* C2: when a Service reaches Stopped by itself and nobody asked for
\* shutdown, the Launcher brings the other Service to Stopped and then emits
\* exit: once the Launcher has nothing left to do, both are Stopped and the
\* exit has been emitted.
C2_CrossKill ==
  (Quiescent /\ NoShutdownAsked /\ SomeProcessExited)
    => /\ \A s \in Services : status[s] = Stopped
       /\ Len(exitEvents) = 1

\* C3: when a Service has exited before the API port was connectable, every
\* start() call under way ends up rejected: once the Launcher has nothing
\* left to do, no such call is still pending.
C3_StartRejects ==
  \A i \in StartCalls :
    (/\ Quiescent
     /\ NoShutdownAsked
     /\ spc[i] # "idle"
     /\ readyEvents = <<>>
     /\ SomeProcessExited)
      => Settled(i, "rejected")

\* the process of s has been spawned
Spawned(s) == status[s] # Starting /\ exitStatus[s].err = NoErr

\* C4: the wallet Service is started only once the node's spawn has been
\* confirmed, and never when the node was not spawned.
C4_NodeBeforeWallet ==
  startTask["wallet"] # "idle" => Spawned("node")

\* C5: once a stop() call has returned, both Services are Stopped and no
\* process is running; stated for the calls made during or after start(),
\* which found the node's process and return its exit status.
C5_StoppedAfterStop ==
  \A c \in StopCalls :
    (/\ stops[c].st = "done"
     /\ stops[c].res["node"] # EmptyStatus
     /\ NoSpawnFailed)
      => \A s \in Services : status[s] = Stopped /\ ~Running(s)

\* C6: every caller of stop() receives the same ExitStatus as the first.
C6_SameStatus ==
  \A c, d \in StopCalls :
    (stops[c].st = "done" /\ stops[d].st = "done" /\ NoSpawnFailed)
      => stops[c].res = stops[d].res

\* C7: the 'ready' notification is emitted at most once per Launcher.
C7_ReadyAtMostOnce == Len(readyEvents) <= 1

\* C8: when the readiness wait resolves while both Services are at most
\* Started, 'ready' is emitted with the wallet's assigned, non-zero port,
\* every start() call waiting for it resolves with the same port, and both
\* processes have been spawned.
C8_ReadyResolvesStart ==
  [][\A i \in StartCalls :
       (/\ wait[i] = "pending"
        /\ wait'[i] = "resolved"
        /\ \A s \in Services : status[s] <= Started)
         => /\ WalletPort # 0
            /\ readyEvents' = Append(readyEvents, WalletPort)
            /\ sres'[i] = <<"resolved", WalletPort>>
            /\ \A j \in StartCalls :
                 (spc[j] = "listening" /\ sres[j] = <<>>)
                   => sres'[j] = <<"resolved", WalletPort>>
            /\ \A s \in Services : Spawned(s)]_vars

\* C8 witness: ready was emitted, a start() resolved with the port, and both
\* processes are up.
C8_Witness ==
  /\ readyEvents = <<WalletPort>>
  /\ \E i \in StartCalls : sres[i] = <<"resolved", WalletPort>>
  /\ \A s \in Services : status[s] = Started

\* C9: the readiness wait resolves only when a connection attempt to the
\* known port succeeds: while the port is 0 no attempt is made and the wait
\* is left pending unless the stop predicate holds, and while the port is
\* closed no step resolves the wait.
C9_ResolvesOnlyOnConnect ==
  [][\A i \in StartCalls :
       /\ (wait[i] = "pending" /\ wait'[i] = "resolved")
            => (portOpen /\ apiPort # 0 /\ conn[i] > 0)
       /\ apiPort = 0 => conn'[i] = 0
       /\ (apiPort = 0 /\ ~StopWaiting(status) /\ wait[i] = "pending")
            => wait'[i] = "pending"
       /\ (~portOpen /\ wait[i] = "pending") => wait'[i] # "resolved"]_vars

\* C9 witness: a poll has an attempt in flight against the closed port and
\* its wait is pending.
C9_Witness ==
  \E i \in StartCalls : wait[i] = "pending" /\ conn[i] > 0 /\ ~portOpen

\* the other case of C9: a poll is running while the port is unknown
C9_PortUnknown ==
  \E i \in StartCalls :
    timer[i] /\ apiPort = 0 /\ portOpen /\ ~StopWaiting(status)

\* C10: after a termination signal was handled, both processes are gone
\* once the Launcher has nothing left to do; stated for the runs in which
\* every spawn succeeds and no process exits by itself.
C10_SignalStopsAll ==
  (/\ Quiescent
   /\ sig
   /\ NoSpawnFailed
   /\ \A s \in Services : exitStatus[s].code = NoCode)
    => \A s \in Services : ~Running(s)

\* C11: with kind 'byron', a network other than mainnet and no genesisFile,
\* the Launcher does not come to exist and no process is ever spawned for
\* that configuration, also when start() is called.
C11_NoSpawnOnBadConfig ==
  ~genesis => \A s \in Services : ~Spawned(s)

\* C12: Launcher.stop() never fails outward: whatever the state of the two
\* Services when it is called and whatever the timeout, once nothing the
\* Launcher has under way is left to happen every stop() call made has
\* resolved, with an ExitStatus holding a status for each Service.
C12_StopResolves ==
  /\ \A c \in StopCalls :
       stops[c].st \in {"idle", "wait", "done"}
         /\ DOMAIN stops[c].res = Services
  /\ Quiescent => \A c \in StopCalls : stops[c].st # "wait"

\* C12 witness: every stop() call made has resolved, one of them with the
\* wallet killed after a graceful request it did not answer.
C12_Witness ==
  /\ Quiescent
  /\ \A c \in StopCalls : stops[c].st = "done"
  /\ \E c \in StopCalls :
       /\ stops[c].res["wallet"] = KilledStatus
       /\ graceful["wallet"] > 0

\* C13: combineStatus gives the first non-null code of the list, in list
\* order, also when an earlier entry has a signal; 127 when every code is
\* null and some entry has a signal; 0 otherwise.
C13_Combine ==
  exitCode # <<>> =>
    LET coded == {i \in 1..Len(statuses) : statuses[i].code # NoCode}
        signalled == {i \in 1..Len(statuses) : statuses[i].signal # NoSignal}
    IN  exitCode[1] =
          IF coded # {}
            THEN statuses[CHOOSE i \in coded : \A j \in coded : i <= j].code
            ELSE IF signalled # {} THEN 127 ELSE 0

\* C13 witness: the code of a later entry has won over the signal of an
\* earlier one.
C13_Witness ==
  /\ Len(statuses) = 2
  /\ statuses[1].code = NoCode /\ statuses[1].signal = "SIGKILL"
  /\ statuses[2].code = 1
  /\ exitCode = <<1>>

\* C14: when start() was rejected because the backend exited, the status in
\* its error is the one the single 'exit' notification delivered, and each
\* of its entries is the exit status of that Service, which has exited;
\* stated for the runs in which every spawn succeeds.
C14_ErrorCarriesStatus ==
  \A i \in StartCalls :
    (Settled(i, "rejected") /\ NoSpawnFailed) =>
      /\ Len(exitEvents) = 1
      /\ sres[i][2] = exitEvents[1]
      /\ \A s \in Services :
           status[s] = Stopped /\ sres[i][2][s] = exitStatus[s]

\* C15: Service.stop() is idempotent: for each Service, every stop() call
\* that has resolved returned the same ServiceExitStatus, and at most one
\* graceful termination request was sent to its process; stated for the
\* runs in which every spawn succeeds.
C15_ServiceStopIdempotent ==
  \A s \in Services :
    /\ graceful[s] <= 1
    /\ NoSpawnFailed =>
         \A c, d \in StopCalls :
           (stops[c].st = "done" /\ stops[d].st = "done")
             => stops[c].res[s] = stops[d].res[s]

\* A step in which Service.stop(0) is called on both Services.
ZeroStop == Signal \/ \E c \in StopCalls : StopCall(c, 0)

\* C16: escalation of Service.stop(timeoutSeconds).  With a clean shutdown
\* and a positive timeout the graceful request is sent first, with the
\* deadline armed and no kill; a kill is then sent only when the deadline
\* passes.  Without clean shutdown the kill is sent at once.  And a Service
\* does not stay Stopping: once no deadline and no kill is pending, it has
\* reached Stopped, also when the process ignores the graceful request.
C16_Escalation ==
  /\ [][\A s \in Services :
          /\ (clean[s] /\ kills'[s] > kills[s])
               => (ZeroStop \/ (KillTimerFires(s) /\ graceful[s] > 0))
          /\ (clean[s] /\ ~ZeroStop /\ status[s] = Started
                        /\ status'[s] = Stopping)
               => (graceful'[s] = graceful[s] + 1 /\ killTimer'[s]
                   /\ kills'[s] = kills[s])
          /\ (~clean[s] /\ status[s] = Started /\ status'[s] = Stopping)
               => (kills'[s] > kills[s] /\ graceful'[s] = graceful[s])]_vars
  /\ [](Quiescent => \A s \in Services : status[s] # Stopping)

\* C16 witness: nobody asked for a forced stop, the wallet was asked to shut
\* down, did not, and was killed when the deadline passed.
C16_Witness ==
  /\ NoShutdownAsked
  /\ graceful["wallet"] > 0
  /\ exitStatus["wallet"] = KilledStatus
  /\ status["wallet"] = Stopped

\* C17: stop(0) means immediate forced termination: after a step that
\* calls Service.stop(0), every Service that had a process is Stopping with
\* a forced kill sent and no deadline left to wait for, also when a
\* graceful stop with a positive timeout was in flight on it.
C17_ZeroForces ==
  [][ZeroStop =>
       \A s \in Services :
         Running(s) =>
           (status'[s] = Stopping /\ kills'[s] > 0 /\ ~killTimer'[s])]_vars

\* C17 witness: a signal was handled, and the wallet, which had been asked
\* to shut down gracefully, has been sent the forced kill.
C17_Witness ==
  /\ sig
  /\ status["wallet"] = Stopping
  /\ graceful["wallet"] > 0
  /\ kills["wallet"] > 0
  /\ ~killTimer["wallet"]

\* C18: Service.start() is idempotent: a start() call on a Service whose
\* spawn was begun or is over begins no other spawn, and a process is
\* spawned only for a Service that is Starting, which it leaves for good:
\* at most one process per Service.
C18_StartIdempotent ==
  [][\A s \in Services :
       /\ startTask[s] \in {"done", "failed"} => startTask'[s] = startTask[s]
       /\ startTask[s] = "pending" => startTask'[s] # "idle"
       /\ (startTask[s] = "pending" /\ startTask'[s] = "done"
              /\ status'[s] = Started)
            => status[s] = Starting
       /\ status[s] # Starting => status'[s] # Starting]_vars

\* C18 witness: start() was called twice, both calls got the same outcome,
\* and both Services are Started.
C18_Witness ==
  /\ \A i \in StartCalls : Settled(i, "resolved")
  /\ \A i, j \in StartCalls : sres[i] = sres[j]
  /\ \A s \in Services : status[s] = Started /\ startTask[s] = "done"

C20_ExitShape ==
  [][\A s \in Services :
       (status[s] # Stopped /\ status'[s] = Stopped) =>
         LET e == exitStatus'[s]
         IN  IF status[s] = Starting
               THEN e.err # NoErr /\ e.code = NoCode /\ e.signal = NoSignal
               ELSE /\ e.err = NoErr
                    /\ (e.code # NoCode) # (e.signal # NoSignal)]_vars

\* C20 witness: the node's spawn failed, and the wallet was spawned and
\* terminated by a signal.
C20_Witness ==
  /\ status["node"] = Stopped /\ exitStatus["node"].err # NoErr
  /\ status["wallet"] = Stopped /\ exitStatus["wallet"].signal # NoSignal

\* C21: the 'exit' notification is emitted only when both the wallet and the
\* node have exited: whenever exit has been emitted, both Services are
\* Stopped, also when stop() is called before start() or while only the node
\* has been spawned.
C21_ExitOnlyWhenBothStopped ==
  exitEvents # <<>> => \A s \in Services : status[s] = Stopped

\* C22: a poll tick that finds either Service past Started rejects the
\* readiness wait and clears the timer; once the wait has resolved or
\* rejected its timer is cleared, so that no tick runs, and no connection
\* attempt is started for it.
C22_ReadinessAbort ==
  /\ [][\A i \in StartCalls :
          /\ (PollTick(i) /\ StopWaiting(status))
               => (wait'[i] = "rejected" /\ ~timer'[i])
          /\ wait[i] \in {"resolved", "rejected"}
               => (~PollTick(i) /\ conn'[i] <= conn[i])]_vars
  /\ [](\A i \in StartCalls :
          wait[i] \in {"resolved", "rejected"} => ~timer[i])

\* C22 witness: the wallet was up and listening, the node has stopped, and
\* the tick that followed rejected the wait and cleared the timer.
C22_Witness ==
  \E i \in StartCalls :
    /\ wait[i] = "rejected"
    /\ ~timer[i]
    /\ portOpen
    /\ status["node"] = Stopped
    /\ apiPort = WalletPort

\* C23: Launcher.stop(t) asks both Services to stop in the same step, before
\* waiting on either: every Service that is Started when stop() is called is
\* Stopping, with its termination request sent, when the call has been made;
\* the node's request does not wait for the wallet's exit, nor the
\* wallet's for the node's.
C23_StopsBothAtOnce ==
  [][\A c \in StopCalls, t \in Timeouts :
       StopCall(c, t) =>
         \A s \in Services :
           status[s] = Started
             => /\ status'[s] = Stopping
                /\ graceful'[s] + kills'[s] > graceful[s] + kills[s]]_vars

\* C23 witness: a stop() call found both processes running; the node is
\* gone while the wallet, asked to shut down, is still alive and the call is
\* waiting for it alone.
C23_Witness ==
  \E c \in StopCalls :
    /\ stops[c].st = "wait"
    /\ stops[c].on = {"wallet"}
    /\ stops[c].res["node"] = KilledStatus
    /\ status["wallet"] = Stopping
    /\ graceful["wallet"] > 0
    /\ kills["wallet"] = 0

\* C24: the two pieces of shared Launcher state are written at most once:
\* the API port changes only from 0 to the wallet's assigned port and never
\* again, and the exit gate goes from not-exited to exited and is never
\* reset, under every sequence of start(), stop(), exit and signal events.
C24_WrittenOnce ==
  [][/\ apiPort' # apiPort
          => (apiPort = UnknownPort /\ apiPort' = cfgPort /\ cfgPort # 0)
     /\ apiPort # UnknownPort => apiPort' = apiPort
     /\ exited => exited'
     /\ exited' # exited => Len(exitEvents') = Len(exitEvents) + 1]_vars

\* C24 witness: the port was assigned and the gate closed, and a stop() call
\* made afterwards has returned with both left as they were.
C24_Witness ==
  /\ apiPort = WalletPort
  /\ exited
  /\ Len(exitEvents) = 1
  /\ \A c \in StopCalls : stops[c].st = "done"
  /\ \E c, d \in StopCalls : stops[c].res # stops[d].res
  /\ sig

\* C25: the termination-signal handlers of a Launcher are deregistered on
\* its terminal stop: once the exit notification has fired with both
\* processes gone, no later signal runs a handler of that Launcher.
C25_HandlersDeregistered ==
  [][(/\ exited
      /\ NoSpawnFailed
      /\ \A s \in Services : status[s] = Stopped)
       => ~Signal]_vars

\* C26: every start() call settles once readiness or backend exit has
\* occurred: when 'ready' or 'exit' has been emitted and the Launcher has
\* nothing left to do, no start() call made is still pending, also a call
\* made after the exit fired or whose listeners were registered after it;
\* stated for the runs in which every spawn succeeds.
C26_StartSettles ==
  \A i \in StartCalls :
    (/\ Quiescent
     /\ NoSpawnFailed
     /\ spc[i] # "idle"
     /\ (exitEvents # <<>> \/ readyEvents # <<>>))
      => (sres[i] # <<>> \/ spc[i] = "failed")

\* Shutdown has been initiated after start() spawned the node: stop() was
\* called or a signal was handled, and the node's process has been sent a
\* termination request.
ShutdownInitiated ==
  /\ sig \/ \E c \in StopCalls : stops[c].st # "idle"
  /\ graceful["node"] + kills["node"] > 0

\* C27: once shutdown has been initiated on a Launcher (stop() called or a
\* signal handled), no process is spawned afterwards: a stop or signal that
\* arrives while start() has spawned the node but not yet the wallet is not
\* followed by the spawn of the wallet.
C27_NoSpawnAfterShutdown ==
  [][ShutdownInitiated
       => \A s \in Services :
            ~(status[s] = Starting /\ status'[s] = Started)]_vars

\* C28: 'ready' is never emitted after the 'exit' of the same Launcher, and
\* the result of a start() call is settled exactly once, by whichever of
\* ready and exit is emitted first; stated for the runs in which every
\* spawn succeeds.
C28_NoReadyAfterExit ==
  [][/\ (exited /\ NoSpawnFailed) => readyEvents' = readyEvents
     /\ \A i \in StartCalls : sres[i] # <<>> => sres'[i] = sres[i]]_vars

====
